---- MODULE Spec2Model ----
(***************************************************************************)
(* Model of src/src/manhattan.py: counting the grid cells that lie within  *)
(* a Manhattan radius of a positive cell, with pruning at the grid edges   *)
(* or toroidal wraparound.                                                 *)
(*                                                                         *)
(* A numpy array is a record [shape, data]: shape is the tuple X.shape and *)
(* data maps every index tuple to the cell's value.  A Python tuple is a   *)
(* TLA+ tuple (1-indexed: coor[1] is Python's coor[0]) and a Python set is *)
(* a TLA+ set.  One behaviour is one call: Init draws the arguments, the   *)
(* action of the called function runs it to its exit.                      *)
(***************************************************************************)
EXTENDS Integers, Sequences, FiniteSets

VARIABLES
    fn,                \* the function called
    X,                 \* count_positive_neighborhood_size: the array
    radius,            \* both functions: the radius
    wraparound,        \* count_positive_neighborhood_size: the flag
    coor,              \* manhattan_neighborhood: the center
    prune_wraparound,  \* manhattan_neighborhood: the flag
    size,              \* manhattan_neighborhood: the array's dimensions
    pc,                \* "ready" before the call, "done" after it
    result             \* what the call ended in

vars == <<fn, X, radius, wraparound, coor, prune_wraparound, size, pc, result>>

\* ------------------------------------------------------------------ bounds

MaxDim == 4
MaxCenters == 2
MaxRadius == 3
MaxRank == 3

\* a local that was never assigned, an argument the call does not have
Unbound == "unbound"

\* ------------------------------------------------------------ numpy arrays

RECURSIVE Indices(_)
\* every index tuple of an array of the given shape (one, the empty tuple, for rank 0)
Indices(shape) ==
    IF Len(shape) = 0 THEN {<<>>}
    ELSE LET n == Len(shape)
         IN  {Append(i, k) : i \in Indices(SubSeq(shape, 1, n - 1)), k \in 0 .. (shape[n] - 1)}

\* row-major order of two index tuples of the same rank
LexLess(a, b) ==
    \E i \in 1 .. Len(a) :
        /\ a[i] < b[i]
        /\ \A j \in 1 .. (i - 1) : a[j] = b[j]

RECURSIVE RowMajor(_)
\* the index tuples of a set, as np.nonzero lists them
RowMajor(S) ==
    IF S = {} THEN <<>>
    ELSE LET first == CHOOSE c \in S : \A d \in S \ {c} : LexLess(c, d)
         IN  <<first>> \o RowMajor(S \ {first})

\* ------------------------------------------------------------ manhattan.py

\* mutant: np.nonzero(X), the comparison with 0 forgotten
centers_of_nonzero(A) ==
    RowMajor({c \in DOMAIN A.data : A.data[c] # 0})

array_to_pos_center_coordinates(A) ==
    RowMajor({c \in DOMAIN A.data : A.data[c] > 0})

\* mutant: the center is not excluded (radius >= d_x + d_y >= 0)
ScanWithCenter(x, y, r) ==
    UNION {
        IF r >= d_x + d_y /\ d_x + d_y >= 0
        THEN {<<x + d_x, y + d_y>>, <<x - d_x, y + d_y>>,
              <<x + d_x, y - d_y>>, <<x - d_x, y - d_y>>}
        ELSE {}
        : d_x \in 0 .. r, d_y \in 0 .. r }

\* mutant: the radius taken one too far (range(0, radius + 2), radius + 1 >= d_x + d_y)
ScanOneFurther(x, y, r) ==
    UNION {
        IF r + 1 >= d_x + d_y /\ d_x + d_y > 0
        THEN {<<x + d_x, y + d_y>>, <<x - d_x, y + d_y>>,
              <<x + d_x, y - d_y>>, <<x - d_x, y - d_y>>}
        ELSE {}
        : d_x \in 0 .. (r + 1), d_y \in 0 .. (r + 1) }

\* the two loops: the upper right quadrant and its three reflections
Scan(x, y, r) ==
    UNION {
        IF r >= d_x + d_y /\ d_x + d_y > 0
        THEN {<<x + d_x, y + d_y>>, <<x - d_x, y + d_y>>,
              <<x + d_x, y - d_y>>, <<x - d_x, y - d_y>>}
        ELSE {}
        : d_x \in 0 .. r, d_y \in 0 .. r }

\* mutant: only the low edges are pruned
PruneLowOnly(neighborhood, sz) ==
    {c \in neighborhood : 0 <= c[1] /\ 0 <= c[2]}

\* mutant: only the high edges are pruned
PruneHighOnly(neighborhood, sz) ==
    LET x_max == sz[1] - 1
        y_max == sz[2] - 1
    IN  {c \in neighborhood : c[1] <= x_max /\ c[2] <= y_max}

\* mutant: the low edge of the second axis is not pruned
PruneForgetsLowY(neighborhood, sz) ==
    LET x_max == sz[1] - 1
        y_max == sz[2] - 1
    IN  {c \in neighborhood : (0 <= c[1] /\ c[1] <= x_max) /\ c[2] <= y_max}

\* mutant: the bounds do not subtract 1
PruneOneTooMany(neighborhood, sz) ==
    LET x_max == sz[1]
        y_max == sz[2]
    IN  {c \in neighborhood : (0 <= c[1] /\ c[1] <= x_max) /\ (0 <= c[2] /\ c[2] <= y_max)}

Prune(neighborhood, sz) ==
    LET x_max == sz[1] - 1
        y_max == sz[2] - 1
    IN  {c \in neighborhood : (0 <= c[1] /\ c[1] <= x_max) /\ (0 <= c[2] /\ c[2] <= y_max)}

manhattan_neighborhood(c, r, prune, sz) ==
    LET x == c[1]
        y == c[2]
        neighborhood == Scan(x, y, r)
    IN  IF prune THEN Prune(neighborhood, sz) ELSE neighborhood

RECURSIVE ReduceFrom(_, _)
ReduceFrom(acc, sets) ==
    IF Len(sets) = 0 THEN acc
    ELSE ReduceFrom(acc \cup Head(sets), Tail(sets))

\* mutant: the accumulator is overwritten, not merged
ReduceKeepsLast(sets) == sets[Len(sets)]

\* reduce(operator.or_, sets) of a non-empty list
ReduceOr(sets) == ReduceFrom(Head(sets), Tail(sets))

\* mutant: the axes are swapped in the modulo
WrapSwapped(all_neighbors, shape) ==
    LET x_max == shape[1]
        y_max == shape[2]
    IN  {<<c[1] % y_max, c[2] % x_max>> : c \in all_neighbors}

Wrap(all_neighbors, shape) ==
    LET x_max == shape[1]
        y_max == shape[2]
    IN  {<<c[1] % x_max, c[2] % y_max>> : c \in all_neighbors}

\* the function from the list of centers on: what it exits with
CountFrom(positive_centers, shape, r, wrap) ==
    IF Len(positive_centers) = 0
    THEN [exit |-> "return", value |-> 0, positive_centers |-> positive_centers,
          unioned |-> Unbound, all_neighbors |-> Unbound]
    ELSE LET merged == ReduceOr([i \in 1 .. Len(positive_centers) |->
                           manhattan_neighborhood(positive_centers[i], r, ~wrap, shape)])
             unioned == merged \cup {positive_centers[i] : i \in 1 .. Len(positive_centers)}
             all_neighbors == IF wrap THEN Wrap(unioned, shape) ELSE unioned
         IN  [exit |-> "return", value |-> Cardinality(all_neighbors),
              positive_centers |-> positive_centers,
              unioned |-> unioned, all_neighbors |-> all_neighbors]

\* mutant: only arrays of rank below 2 are refused
count_rank_at_least_2(A, r, wrap) ==
    IF Len(A.shape) < 2
    THEN [exit |-> "ValueError", value |-> Unbound, positive_centers |-> Unbound,
          unioned |-> Unbound, all_neighbors |-> Unbound]
    ELSE CountFrom(array_to_pos_center_coordinates(A), A.shape, r, wrap)

count_positive_neighborhood_size(A, r, wrap) ==
    IF Len(A.shape) # 2
    THEN [exit |-> "ValueError", value |-> Unbound, positive_centers |-> Unbound,
          unioned |-> Unbound, all_neighbors |-> Unbound]
    ELSE CountFrom(array_to_pos_center_coordinates(A), A.shape, r, wrap)

\* ------------------------------------------------------------------ inputs

Radii == -1 .. MaxRadius

RECURSIVE SubsetsUpTo(_, _)
\* the subsets of S of at most n elements
SubsetsUpTo(S, n) ==
    IF n = 0 THEN {{}}
    ELSE LET smaller == SubsetsUpTo(S, n - 1)
         IN  smaller \cup {T \cup {c} : T \in smaller, c \in S}

\* an array with the given positive cells; every other cell holds `rest`
Array(shape, pos, rest) ==
    [shape |-> shape, data |-> [c \in Indices(shape) |-> IF c \in pos THEN 1 ELSE rest]]

Shapes2D == {<<h, w>> : h \in 0 .. MaxDim, w \in 0 .. MaxDim}

RECURSIVE ShapesOfRank(_)
\* the shapes of rank n with axes of length 1 or 2
ShapesOfRank(n) ==
    IF n = 0 THEN {<<>>}
    ELSE {Append(s, k) : s \in ShapesOfRank(n - 1), k \in 1 .. 2}

ShapesNot2D == UNION {ShapesOfRank(n) : n \in (0 .. MaxRank) \ {2}}

Arrays2D ==
    UNION {{Array(s, pos, rest) : pos \in SubsetsUpTo(Indices(s), MaxCenters), rest \in {0, -1}}
           : s \in Shapes2D}

ArraysNot2D ==
    UNION {{Array(s, pos, rest) : pos \in SubsetsUpTo(Indices(s), 1), rest \in {0, -1}}
           : s \in ShapesNot2D}

Sizes == {<<h, w>> : h \in 1 .. MaxDim, w \in 1 .. MaxDim}

\* ------------------------------------------------------------ state machine

InitCount ==
    /\ fn = "count_positive_neighborhood_size"
    /\ X \in Arrays2D \cup ArraysNot2D
    /\ radius \in Radii
    /\ wraparound \in BOOLEAN
    /\ coor = Unbound
    /\ prune_wraparound = Unbound
    /\ size = Unbound

InitNeighborhood ==
    /\ fn = "manhattan_neighborhood"
    /\ size \in Sizes
    /\ coor \in Indices(size)
    /\ radius \in Radii
    /\ prune_wraparound \in BOOLEAN
    /\ X = Unbound
    /\ wraparound = Unbound

Init ==
    /\ pc = "ready"
    /\ result = Unbound
    /\ (InitCount \/ InitNeighborhood)

Count ==
    /\ pc = "ready"
    /\ fn = "count_positive_neighborhood_size"
    /\ result' = count_positive_neighborhood_size(X, radius, wraparound)
    /\ pc' = "done"
    /\ UNCHANGED <<fn, X, radius, wraparound, coor, prune_wraparound, size>>

Neighborhood ==
    /\ pc = "ready"
    /\ fn = "manhattan_neighborhood"
    /\ result' = manhattan_neighborhood(coor, radius, prune_wraparound, size)
    /\ pc' = "done"
    /\ UNCHANGED <<fn, X, radius, wraparound, coor, prune_wraparound, size>>

Next == Count \/ Neighborhood

Spec == Init /\ [][Next]_vars

\* ------------------------------------------------- vocabulary of the claims

CountDone == pc = "done" /\ fn = "count_positive_neighborhood_size"

NeighborhoodDone == pc = "done" /\ fn = "manhattan_neighborhood"

Is2D == Len(X.shape) = 2

\* height: the first axis; width: the second axis
H == X.shape[1]

W == X.shape[2]

Cells == DOMAIN X.data

Positive == {c \in Cells : X.data[c] > 0}

Abs(n) == IF n < 0 THEN -n ELSE n

Min(a, b) == IF a <= b THEN a ELSE b

Manhattan(a, b) == Abs(a[1] - b[1]) + Abs(a[2] - b[2])

\* Manhattan distance on the torus of h rows and w columns
Toroidal(a, b, h, w) ==
    Min(Abs(a[1] - b[1]), h - Abs(a[1] - b[1])) + Min(Abs(a[2] - b[2]), w - Abs(a[2] - b[2]))

\* the closed L1 ball of radius r around c, without c
Ball(c, r) ==
    {d \in ((c[1] - r) .. (c[1] + r)) \X ((c[2] - r) .. (c[2] + r)) :
        0 < Manhattan(d, c) /\ Manhattan(d, c) <= r}

InRows(c, n) == 0 <= c[1] /\ c[1] <= n - 1

InCols(c, n) == 0 <= c[2] /\ c[2] <= n - 1

Within(c, rows, cols) == InRows(c, rows) /\ InCols(c, cols)

\* the cells of the grid within Manhattan distance r of a positive cell
Reached(r) == {c \in Cells : \E p \in Positive : Manhattan(c, p) <= r}

\* the same on the torus
ReachedToroidal(r) == {c \in Cells : \E p \in Positive : Toroidal(c, p, H, W) <= r}

\* every ball and every center, nothing pruned and nothing folded
Unpruned(r) == Positive \cup UNION {Ball(p, r) : p \in Positive}

\* ------------------------------------------------------------------ claims

\* C1: without wraparound, for a 2-D grid and a radius >= 0, the call returns
\* the number of grid cells within Manhattan distance radius of some positive
\* cell: centers included, each cell once, nothing outside the grid.
C1_CountPruned ==
    (CountDone /\ Is2D /\ radius >= 0 /\ wraparound = FALSE)
        => /\ result.exit = "return"
           /\ result.value = Cardinality(Reached(radius))

\* C1 happens: two centers whose balls overlap and leave the grid through a
\* low edge and through a high edge, and some cell of the grid is not reached.
C1_Witness ==
    /\ CountDone /\ Is2D /\ radius >= 1 /\ wraparound = FALSE
    /\ \E p, q \in Positive : p # q /\ Manhattan(p, q) <= radius
    /\ \E c \in Unpruned(radius) : c[1] < 0 \/ c[2] < 0
    /\ \E c \in Unpruned(radius) : c[1] > H - 1 \/ c[2] > W - 1
    /\ result.value < H * W

\* C2: with wraparound, for a 2-D grid with non-empty axes and a radius >= 0,
\* the call returns the number of grid cells within toroidal Manhattan
\* distance radius of some positive cell, also when radius exceeds an axis.
C2_CountToroidal ==
    (CountDone /\ Is2D /\ H >= 1 /\ W >= 1 /\ radius >= 0 /\ wraparound = TRUE)
        => /\ result.exit = "return"
           /\ result.value = Cardinality(ReachedToroidal(radius))

\* C2 happens: the radius is at least twice an axis, so offsets wrap more
\* than once, and folding merges coordinates.
C2_Witness ==
    /\ CountDone /\ Is2D /\ wraparound = TRUE
    /\ Positive # {}
    /\ H # W
    /\ radius >= 2 * Min(H, W)
    /\ Cardinality(result.unioned) > result.value

\* C3: the call ends in ValueError exactly when the grid is not 2-dimensional,
\* whatever the radius and the flag; the error leaves no count, no centers
\* and no neighborhood behind.
C3_InvalidShape ==
    CountDone
        => /\ (Len(X.shape) # 2) <=> (result.exit = "ValueError")
           /\ result.exit = "ValueError"
                => /\ result.value = Unbound
                   /\ result.positive_centers = Unbound
                   /\ result.unioned = Unbound
                   /\ result.all_neighbors = Unbound

\* C3 happens: a rank 3 array with a positive cell is refused.
C3_Witness ==
    /\ CountDone
    /\ Len(X.shape) = 3
    /\ Positive # {}
    /\ radius >= 1
    /\ result.exit = "ValueError"

\* C4: a 2-D grid with no cell above 0 counts 0, for every radius and both
\* flags, and no union is attempted.
C4_NoPositive ==
    (CountDone /\ Is2D /\ Positive = {})
        => /\ result.exit = "return"
           /\ result.value = 0
           /\ result.unioned = Unbound
           /\ result.all_neighbors = Unbound

\* C4 happens: a grid of negative cells, with wraparound and a radius.
C4_Witness ==
    /\ CountDone /\ Is2D /\ wraparound = TRUE /\ radius >= 1
    /\ Cells # {}
    /\ \A c \in Cells : X.data[c] < 0
    /\ result.value = 0

\* C5: radius 0 without wraparound counts exactly the positive cells: every
\* center's neighborhood is empty and only the centers are counted.
C5_RadiusZero ==
    (CountDone /\ Is2D /\ radius = 0 /\ wraparound = FALSE)
        => /\ result.exit = "return"
           /\ result.value = Cardinality(Positive)
           /\ \A p \in Positive : manhattan_neighborhood(p, radius, TRUE, X.shape) = {}

\* C5 happens: several positive cells, some of them adjacent.
C5_Witness ==
    /\ CountDone /\ Is2D /\ radius = 0 /\ wraparound = FALSE
    /\ \E p, q \in Positive : Manhattan(p, q) = 1
    /\ result.value = 2

\* X.T, as the transpose tests build it: the center (a, b) moves to (b, a)
Transpose(A) ==
    [shape |-> <<A.shape[2], A.shape[1]>>,
     data |-> [c \in Indices(<<A.shape[2], A.shape[1]>>) |-> A.data[<<c[2], c[1]>>]]]

\* every neighborhood stays within the grid, in this orientation and in the other
StaysWithinBothWays(r) ==
    \A c \in Unpruned(r) : Within(c, H, W) /\ Within(<<c[2], c[1]>>, W, H)

\* C6: without wraparound the count of a square grid equals the count of its
\* transpose for every radius, and so does the count of a rectangular grid
\* whose neighborhoods stay within bounds in both orientations.
C6_TransposeInvariant ==
    (CountDone /\ Is2D /\ wraparound = FALSE /\ (H = W \/ StaysWithinBothWays(radius)))
        => /\ result.exit = "return"
           /\ count_positive_neighborhood_size(Transpose(X), radius, FALSE).value = result.value

\* C6 happens, square: an asymmetric square grid whose balls are pruned.
C6_WitnessSquare ==
    /\ CountDone /\ Is2D /\ wraparound = FALSE /\ radius >= 1
    /\ H = W
    /\ Positive # {}
    /\ Transpose(X) # X
    /\ \E c \in Unpruned(radius) : ~Within(c, H, W)
    /\ result.value < H * W

\* C6 happens: a rectangular grid and a radius >= 1, its neighborhoods within
\* bounds both ways.
C6_Witness ==
    /\ CountDone /\ Is2D /\ wraparound = FALSE /\ radius >= 1
    /\ H # W
    /\ Positive # {}
    /\ StaysWithinBothWays(radius)
    /\ result.value > Cardinality(Positive)

\* the orders in which a list can be iterated
Orders(list) ==
    LET n == Len(list)
        shuffles == {f \in [1 .. n -> 1 .. n] : \A i, j \in 1 .. n : f[i] = f[j] => i = j}
    IN  {[i \in 1 .. n |-> list[f[i]]] : f \in shuffles}

\* C7: for a fixed grid, radius and flag, iterating the positive centers and
\* merging their neighborhoods in any order yields the same final set and
\* the same count, with and without wraparound.
C7_OrderIndependent ==
    (CountDone /\ Is2D)
        => \A order \in Orders(result.positive_centers) :
              LET other == CountFrom(order, X.shape, radius, wraparound)
              IN  /\ other.value = result.value
                  /\ other.all_neighbors = result.all_neighbors

\* C7 happens: several centers with different neighborhoods that overlap.
C7_Witness ==
    /\ CountDone /\ Is2D /\ radius >= 1
    /\ Len(result.positive_centers) >= 2
    /\ \E p, q \in Positive :
          /\ p # q
          /\ Manhattan(p, q) <= radius
          /\ manhattan_neighborhood(p, radius, ~wraparound, X.shape)
                # manhattan_neighborhood(q, radius, ~wraparound, X.shape)
    /\ result.value < H * W

\* C8: for a radius >= 0, manhattan_neighborhood without pruning returns the
\* closed L1 ball around the center minus the center, out-of-range
\* coordinates kept; with pruning, the members of it inside the grid.  The
\* center is never in it, and for radius 0 it is empty.
C8_Neighborhood ==
    (NeighborhoodDone /\ radius >= 0)
        => /\ prune_wraparound = FALSE => result = Ball(coor, radius)
           /\ prune_wraparound = TRUE
                => result = {c \in Ball(coor, radius) : Within(c, size[1], size[2])}
           /\ coor \notin result
           /\ radius = 0 => result = {}

\* C8 happens: a pruned neighborhood that lost coordinates on a low and on a
\* high side and kept others.
C8_Witness ==
    /\ NeighborhoodDone /\ radius >= 2 /\ prune_wraparound = TRUE
    /\ size[1] # size[2]
    /\ \E c \in Ball(coor, radius) : c[1] < 0 \/ c[2] < 0
    /\ \E c \in Ball(coor, radius) : c[1] > size[1] - 1 \/ c[2] > size[2] - 1
    /\ result # {}

\* C8 happens, unpruned: negative and too large coordinates are kept.
C8_WitnessUnpruned ==
    /\ NeighborhoodDone /\ radius >= 2 /\ prune_wraparound = FALSE
    /\ \E c \in result : c[1] < 0
    /\ \E c \in result : c[2] > size[2] - 1

\* C9 as stated: with H the first axis and W the second, wraparound maps
\* every coordinate (x, y) of the union to (x mod W, y mod H), every counted
\* coordinate lies in [0, W-1] x [0, H-1], and pruning applies these bounds.
C9_AsStated ==
    (CountDone /\ Is2D /\ Positive # {})
        => /\ wraparound = TRUE
                => result.all_neighbors = {<<c[1] % W, c[2] % H>> : c \in result.unioned}
           /\ wraparound = FALSE
                => result.all_neighbors = {c \in Unpruned(radius) : Within(c, W, H)}
           /\ \A c \in result.all_neighbors : Within(c, W, H)

\* C9 amended: wraparound maps every coordinate (x, y) of the union to
\* (x mod H, y mod W), every counted coordinate lies in [0, H-1] x [0, W-1],
\* and pruning applies these bounds: x runs over the first axis.
C9_Amended ==
    (CountDone /\ Is2D /\ Positive # {})
        => /\ wraparound = TRUE
                => /\ result.unioned = Unpruned(radius)
                   /\ result.all_neighbors = {<<c[1] % H, c[2] % W>> : c \in result.unioned}
           /\ wraparound = FALSE
                => result.all_neighbors = {c \in Unpruned(radius) : Within(c, H, W)}
           /\ \A c \in result.all_neighbors : Within(c, H, W)

\* C9 happens: a non-square grid, wraparound, and negative coordinates as well
\* as too large ones to fold.
C9_Witness ==
    /\ CountDone /\ Is2D /\ wraparound = TRUE /\ radius >= 1
    /\ H # W
    /\ Positive # {}
    /\ \E c \in result.unioned : c[1] < 0 \/ c[2] < 0
    /\ \E c \in result.unioned : c[1] > H - 1 \/ c[2] > W - 1
    /\ \E c \in result.all_neighbors : c[1] > W - 1 \/ c[2] > H - 1

\* C10: for a 2-D grid with non-empty axes and a radius >= 0, the set counted
\* without wraparound is a subset of the set counted with it, so the count
\* with wraparound is at least the count without, and both are at most H*W.
C10_WrapCountsMore ==
    (CountDone /\ Is2D /\ H >= 1 /\ W >= 1 /\ radius >= 0)
        => LET other == count_positive_neighborhood_size(X, radius, ~wraparound)
               with == IF wraparound THEN result ELSE other
               without == IF wraparound THEN other ELSE result
           IN  /\ with.value >= without.value
               /\ with.value <= H * W
               /\ without.value <= H * W
               /\ Positive # {} => without.all_neighbors \subseteq with.all_neighbors

\* C10 happens: wraparound counts strictly more cells than pruning does, and
\* not the whole grid.
C10_Witness ==
    /\ CountDone /\ Is2D /\ wraparound = TRUE /\ radius >= 1
    /\ count_positive_neighborhood_size(X, radius, FALSE).value < result.value
    /\ result.value < H * W

====
